---------------------------- MODULE Spec2Model ----------------------------
(***************************************************************************)
(* A model of pyMake.py: the TOML include chain (main), the key lookup     *)
(* (lf_args), the status gate (checkCommand), the override (Override) and  *)
(* the command assembly (generateCommand), with the aggregate "all" loop   *)
(* of main.                                                                *)
(*                                                                         *)
(* Python strings are sequences of one-character strings, so that slices,  *)
(* substring tests, strip() and the [:5] prefix test are computed and not  *)
(* assumed.  A Python dict is a function whose DOMAIN is its key set.      *)
(* An exception or an exit() inside a function is a tagged result.         *)
(***************************************************************************)
EXTENDS Integers, Sequences, FiniteSets, TLC

(***************************************************************************)
(* Bounds of the model.                                                    *)
(***************************************************************************)
MaxTokens == 3

MaxChain == 2

NumFiles == 2

(***************************************************************************)
(* String literals of the source.                                          *)
(***************************************************************************)
s_status == <<"s", "t", "a", "t", "u", "s">>

s_exeCommand == <<"e", "x", "e", "C", "o", "m", "m", "a", "n", "d">>

s_flashCommand == <<"f", "l", "a", "s", "h", "C", "o", "m", "m", "a", "n", "d">>

s_header == <<"h", "e", "a", "d", "e", "r">>

s_name == <<"n", "a", "m", "e">>

s_include == <<"i", "n", "c", "l", "u", "d", "e">>

s_all == <<"a", "l", "l">>

s_Error == <<"E", "r", "r", "o", "r">>

s_err_status == <<"E", "r", "r", "o", "r", ":", " ", "r", "e", "c", "e", "i", "v", "e", "d", " ", "t", "h", "e", " ", "s", "t", "a", "t", "u", "s", ":", " ", "'">>

s_err_from == <<"'", " ", "f", "r", "o", "m", " ", "t", "h", "e", " ", "T", "O", "M", "L", " ", "f", "i", "l", "e", ":">>

s_err_prefix == <<"E", "r", "r", "o", "r", ":", " ">>

s_err_notfound == <<" ", "n", "o", "t", " ", "f", "o", "u", "n", "d", " ", "i", "n", " ", "a", "n", "y", " ", "T", "O", "M", "L", " ", "f", "i", "l", "e", "s", ".">>

s_make == <<"_", "m", "a", "k", "e">>

s_cmake == <<"_", "c", "m", "a", "k", "e">>

s_src == <<"_", "s", "r", "c", "_">>

s_make_cmd == <<" ", "m", "a", "k", "e", " ", "-", "j", "$", "(", "(", "$", "(", "n", "p", "r", "o", "c", ")", " ", "-", " ", "1", ")", ")", " ", "-", "C", " ">>

s_cmake_cmd == <<" ", "c", "m", "a", "k", "e", " ", "-", "S", " ">>

(***************************************************************************)
(* Python string operations.                                               *)
(***************************************************************************)
\* s[a:b] for 0 <= a, clamped at the end of s
Slice(s, a, b) ==
    SubSeq(s, a + 1, IF b < Len(s) THEN b ELSE Len(s))

\* sub in s
Contains(s, sub) ==
    \E k \in 0..(Len(s) - Len(sub)) : SubSeq(s, k + 1, k + Len(sub)) = sub

\* s.index(c), 0-based, for a character c that occurs in s
Index(s, c) ==
    (CHOOSE k \in 1..Len(s) : s[k] = c /\ \A j \in 1..(k - 1) : s[j] # c) - 1

RECURSIVE LStrip(_)
LStrip(s) ==
    IF s # <<>> /\ Head(s) = " " THEN LStrip(Tail(s)) ELSE s

RECURSIVE RStrip(_)
RStrip(s) ==
    IF s # <<>> /\ s[Len(s)] = " " THEN RStrip(SubSeq(s, 1, Len(s) - 1)) ELSE s

\* s.strip()
Strip(s) ==
    RStrip(LStrip(s))

(***************************************************************************)
(* class Override                                                          *)
(***************************************************************************)
Override(option) ==
    IF option # <<>> /\ Contains(option, <<":">>)
    THEN [element |-> Strip(Slice(option, 0, Index(option, ":"))),
          arg     |-> <<" ">> \o Strip(Slice(option, Index(option, ":") + 1, Len(option)))]
    ELSE [element |-> <<>>, arg |-> <<>>]

(***************************************************************************)
(* Results of a function that may raise or exit: tag is "ok" (val is the   *)
(* returned value), "exit" (exit(-1) was called), "KeyError" or            *)
(* "IndexError" (the exception left the function).                         *)
(***************************************************************************)
Ret(v) ==
    [tag |-> "ok", val |-> v]

Raise(t) ==
    [tag |-> t, val |-> <<>>]

(***************************************************************************)
(* lf_args: the first dict of dict_list whose table `command` holds        *)
(* `element`.  dict[command] raises KeyError when the table is missing.    *)
(***************************************************************************)
RECURSIVE lf_args_from(_, _, _, _)
lf_args_from(element, command, dict_list, k) ==
    IF k > Len(dict_list) THEN Raise("exit")
    ELSE IF command \notin DOMAIN dict_list[k] THEN Raise("KeyError")
    ELSE IF element \in DOMAIN dict_list[k][command]
         THEN Ret(dict_list[k][command][element])
         ELSE lf_args_from(element, command, dict_list, k + 1)

\* lf_args with the fault of scanning from the last dict to the first
RECURSIVE lf_args_down(_, _, _, _)
lf_args_down(element, command, dict_list, k) ==
    IF k < 1 THEN Raise("exit")
    ELSE IF command \notin DOMAIN dict_list[k] THEN Raise("KeyError")
    ELSE IF element \in DOMAIN dict_list[k][command]
         THEN Ret(dict_list[k][command][element])
         ELSE lf_args_down(element, command, dict_list, k - 1)

lf_args_last(element, command, dict_list) ==
    lf_args_down(element, command, dict_list, Len(dict_list))

lf_args(element, command, dict_list) ==
    lf_args_from(element, command, dict_list, 1)

(***************************************************************************)
(* checkCommand: 0 (here <<>> with tag "clear") or the error text of the   *)
(* first dict whose table `command` holds 'status'.                        *)
(***************************************************************************)
StatusError(dict, command) ==
    s_err_status \o dict[command][s_status] \o s_err_from \o dict[s_header][s_name]

RECURSIVE checkCommand_from(_, _, _)
checkCommand_from(command, dict_list, k) ==
    IF k > Len(dict_list) THEN [tag |-> "clear", val |-> <<>>]
    ELSE IF command \notin DOMAIN dict_list[k] THEN Raise("KeyError")
    ELSE IF s_status \in DOMAIN dict_list[k][command]
         THEN Ret(StatusError(dict_list[k], command))
         ELSE checkCommand_from(command, dict_list, k + 1)

\* checkCommand with the fault of `return 0` inside the loop: only the
\* first dict is looked at
checkCommand_first(command, dict_list) ==
    IF dict_list = <<>> THEN [tag |-> "clear", val |-> <<>>]
    ELSE IF command \notin DOMAIN dict_list[1] THEN Raise("KeyError")
    ELSE IF s_status \in DOMAIN dict_list[1][command]
         THEN Ret(StatusError(dict_list[1], command))
         ELSE [tag |-> "clear", val |-> <<>>]

checkCommand(command, dict_list) ==
    checkCommand_from(command, dict_list, 1)


(***************************************************************************)
(* generateCommand, lines 169-178: the run key and the first dict whose    *)
(* table `command` holds it.  tag "unset" models exe_command not being a   *)
(* local after the loop.                                                   *)
(***************************************************************************)
RunKey(run_flash) ==
    IF run_flash THEN s_flashCommand ELSE s_exeCommand

RECURSIVE find_run_from(_, _, _, _)
find_run_from(run, command, dict_list, k) ==
    IF k > Len(dict_list) THEN [tag |-> "unset", val |-> <<>>]
    ELSE IF command \notin DOMAIN dict_list[k] THEN Raise("KeyError")
    ELSE IF run \in DOMAIN dict_list[k][command]
         THEN Ret(dict_list[k][command][run])
         ELSE find_run_from(run, command, dict_list, k + 1)

find_run(run, command, dict_list) ==
    find_run_from(run, command, dict_list, 1)

RunNotFound(run) ==
    s_err_prefix \o run \o s_err_notfound

(***************************************************************************)
(* generateCommand, lines 180-218: the accumulator is the three locals     *)
(* commands_to_run, next_no_space, first_cmd; one operator per branch of   *)
(* the if/elif chain of the loop body.                                     *)
(***************************************************************************)
Acc0 ==
    [commands_to_run |-> <<>>, next_no_space |-> FALSE, first_cmd |-> TRUE]

EmitMake(acc, source) ==
    [acc EXCEPT !.commands_to_run =
                    @ \o (IF ~acc.first_cmd THEN <<";">> ELSE <<>>) \o s_make_cmd \o source,
                !.first_cmd = FALSE]

\* the cmake branch with the fault of not sharing first_cmd
EmitCmake_own(acc, source) ==
    [acc EXCEPT !.commands_to_run = @ \o s_cmake_cmd \o source]

EmitCmake(acc, source) ==
    [acc EXCEPT !.commands_to_run =
                    @ \o (IF ~acc.first_cmd THEN <<";">> ELSE <<>>) \o s_cmake_cmd \o source,
                !.first_cmd = FALSE]

EmitSrc(acc, source) ==
    [acc EXCEPT !.commands_to_run =
                    @ \o (IF ~acc.next_no_space THEN <<" ">> ELSE <<>>) \o source,
                !.next_no_space = TRUE]

EmitOverride(acc, override) ==
    [acc EXCEPT !.commands_to_run = @ \o override.arg]

EmitAdjacent(acc, arg) ==
    [acc EXCEPT !.commands_to_run = @ \o arg,
                !.next_no_space = TRUE]

EmitAssign(acc, element) ==
    [acc EXCEPT !.commands_to_run = @ \o <<" ">> \o element,
                !.next_no_space = TRUE]

\* the plain branch with the fault of leaving next_no_space set
EmitPlain_keep(acc, arg) ==
    IF acc.next_no_space
    THEN [acc EXCEPT !.commands_to_run = @ \o arg]
    ELSE [acc EXCEPT !.commands_to_run = @ \o <<" ">> \o arg]

EmitPlain(acc, arg) ==
    IF acc.next_no_space
    THEN [acc EXCEPT !.commands_to_run = @ \o arg, !.next_no_space = FALSE]
    ELSE [acc EXCEPT !.commands_to_run = @ \o <<" ">> \o arg]

\* the if/elif chain with the fault of an override test without
\* `element != ""`
Branch_noguard(element, override) ==
    IF Contains(Slice(element, 0, 5), s_make) THEN "make"
    ELSE IF Contains(Slice(element, 0, 6), s_cmake) THEN "cmake"
    ELSE IF Contains(Slice(element, 0, 5), s_src) THEN "src"
    ELSE IF override.element = element THEN "override"
    ELSE IF element = <<>> THEN "IndexError"
    ELSE IF element[1] = "_" /\ element[Len(element)] = "_" THEN "adjacent"
    ELSE IF element[Len(element)] = "=" THEN "assign"
    ELSE "plain"

\* the branch of the if/elif chain that `element` takes; "IndexError" when
\* element[0] is evaluated on the empty string
Branch(element, override) ==
    IF Contains(Slice(element, 0, 5), s_make) THEN "make"
    ELSE IF Contains(Slice(element, 0, 6), s_cmake) THEN "cmake"
    ELSE IF Contains(Slice(element, 0, 5), s_src) THEN "src"
    ELSE IF override.element = element /\ element # <<>> THEN "override"
    ELSE IF element = <<>> THEN "IndexError"
    ELSE IF element[1] = "_" /\ element[Len(element)] = "_" THEN "adjacent"
    ELSE IF element[Len(element)] = "=" THEN "assign"
    ELSE "plain"

\* one pass of the loop body: the new accumulator, or the exception or exit
\* that lf_args or element[0] ends the function with
Element(acc, element, command, dict_list, source, override) ==
    LET b == Branch(element, override)
        key == IF b = "adjacent" THEN Slice(element, 1, Len(element) - 1) ELSE element
        arg == lf_args(key, command, dict_list)
    IN  CASE b = "make" -> Ret(EmitMake(acc, source))
          [] b = "cmake" -> Ret(EmitCmake(acc, source))
          [] b = "src" -> Ret(EmitSrc(acc, source))
          [] b = "override" -> Ret(EmitOverride(acc, override))
          [] b = "IndexError" -> [tag |-> "IndexError", val |-> acc]
          [] b = "adjacent" ->
                IF arg.tag = "ok" THEN Ret(EmitAdjacent(acc, arg.val))
                ELSE [tag |-> arg.tag, val |-> acc]
          [] b = "assign" -> Ret(EmitAssign(acc, element))
          [] OTHER ->
                IF arg.tag = "ok" THEN Ret(EmitPlain(acc, arg.val))
                ELSE [tag |-> arg.tag, val |-> acc]

RECURSIVE RunElements(_, _, _, _, _, _, _)
RunElements(acc, exe, k, command, dict_list, source, ovr) ==
    IF k > Len(exe) THEN Ret(acc.commands_to_run \o <<" ">>)
    ELSE LET r == Element(acc, exe[k], command, dict_list, source, ovr)
         IN  IF r.tag = "ok"
             THEN RunElements(r.val, exe, k + 1, command, dict_list, source, ovr)
             ELSE Raise(r.tag)

\* the whole call: tag "ok" with the returned string (a command or an
\* "Error..." text), or the exception or exit that ends it
generateCommand(command, dict_list, source, run_flash, ovr) ==
    LET ret == checkCommand(command, dict_list)
        exe == find_run(RunKey(run_flash), command, dict_list)
    IN  IF ret.tag = "KeyError" THEN Raise("KeyError")
        ELSE IF ret.tag = "ok" THEN Ret(ret.val)
        ELSE IF exe.tag = "KeyError" THEN Raise("KeyError")
        ELSE IF exe.tag = "unset" THEN Ret(RunNotFound(RunKey(run_flash)))
        ELSE RunElements(Acc0, exe.val, 1, command, dict_list, source, ovr)

\* main, lines 432 and 449: command[:5] == "Error"
IsError(command) ==
    Slice(command, 0, 5) = s_Error

(***************************************************************************)
(* State.  lst_toml_files .. command are the variables of main and the     *)
(* arguments and locals of generateCommand; pc is the position in the      *)
(* code and err the exception or exit that ended the run ("none" while it  *)
(* runs).  ret is the return statement generateCommand left by.  idx is    *)
(* the position of the for loop in exe_command.  hist is a history         *)
(* variable: per element consumed, the branch taken, the locals before it  *)
(* and the span of commands_to_run it appended.  files .. opened belong to  *)
(* the loading of the include chain, todo .. printed to the "all" loop,    *)
(* element and arg to a call of lf_args on its own.                        *)
(***************************************************************************)
VARIABLES pc, err, lst_toml_files, cmd, source, run_flash, override,
          run, exe_command, commands_to_run, next_no_space, first_cmd,
          idx, hist, command, ret,
          files, inputFile, toml_dict, opened,
          todo, commands, printed,
          element, arg

vars == <<pc, err, lst_toml_files, cmd, source, run_flash, override,
          run, exe_command, commands_to_run, next_no_space, first_cmd,
          idx, hist, command, ret,
          files, inputFile, toml_dict, opened,
          todo, commands, printed,
          element, arg>>

genVars == <<run, exe_command, commands_to_run, next_no_space, first_cmd,
             idx, hist, command, ret>>

loadVars == <<files, inputFile, toml_dict, opened>>

allVars == <<todo, commands, printed>>

resVars == <<element, arg>>

(***************************************************************************)
(* Inputs.                                                                 *)
(***************************************************************************)
t_foo_ == <<"_", "f", "o", "o", "_">>

t_assign == <<"A", "=">>

k_foo == <<"f", "o", "o">>

k_bar == <<"b", "a", "r">>

k_baz == <<"b", "a", "z">>

\* the elements an exeCommand / flashCommand array is drawn from
Tokens ==
    {s_make, s_cmake, s_src, t_foo_, t_assign, k_bar, k_baz, <<>>}

TokenSeqs ==
    UNION {[1..n -> Tokens] : n \in 0..MaxTokens}

\* the --override strings
Options ==
    {<<>>, <<"b", "a", "r", ":", " ", "q">>, <<"b", "a", "z">>}

tbl_t == <<"t">>

tbl_u == <<"u">>

src_dir == <<"s", "/">>

Digit(i) ==
    IF i = 1 THEN "1" ELSE IF i = 2 THEN "2" ELSE IF i = 3 THEN "3" ELSE "4"

\* a TOML document: the header table with its name, and the command tables
Doc(name, tables) ==
    (s_header :> (s_name :> name)) @@ tables

\* a document of the header comment's example: every key defined
DocFull(toks) ==
    Doc(<<"d", "1">>,
        tbl_t :> ((s_exeCommand :> toks) @@ (k_foo :> <<"X">>) @@ (k_bar :> <<"Y">>)
                  @@ (k_baz :> <<>>)))

\* a two-layer chain: the specific layer overrides foo, the included layer
\* holds foo and bar, nobody holds baz
ChainLayered(toks) ==
    << Doc(<<"d", "1">>, tbl_t :> ((s_exeCommand :> toks) @@ (k_foo :> s_Error))),
       Doc(<<"d", "2">>, tbl_t :> ((k_foo :> <<"X">>) @@ (k_bar :> <<"Z">>))) >>

\* the layer at index i of a drawn chain: its table t, if any, with or
\* without status, exeCommand, flashCommand and the keys of `ks`
LayerChoices ==
    [table : BOOLEAN, status : BOOLEAN, exe : BOOLEAN, flash : BOOLEAN,
     keys : {{}, {k_bar}, {k_foo, k_bar, k_baz}}]

Layer(i, c, toks) ==
    LET fields == (IF c.status THEN {s_status} ELSE {})
                  \cup (IF c.exe THEN {s_exeCommand} ELSE {})
                  \cup (IF c.flash THEN {s_flashCommand} ELSE {})
                  \cup c.keys
        value(k) == IF k = s_status THEN <<"o", "f", "f", Digit(i)>>
                    ELSE IF k = s_exeCommand THEN toks
                    ELSE IF k = s_flashCommand THEN <<k_bar>>
                    ELSE k \o <<Digit(i)>>
    IN  Doc(<<"d", Digit(i)>>,
            IF c.table THEN tbl_t :> [k \in fields |-> value(k)] ELSE <<>>)

LayerSeqs ==
    {<<k_bar>>, <<t_foo_, k_baz>>}

(***************************************************************************)
(* Spec: generateCommand applied to every argument tuple of the bounds,    *)
(* one element of exe_command per step, followed by the test main makes    *)
(* of the returned string.                                                 *)
(***************************************************************************)
\* the variables of each part before that part has run
GenIdle ==
    /\ run = <<>>
    /\ exe_command = <<>>
    /\ commands_to_run = <<>>
    /\ next_no_space = FALSE
    /\ first_cmd = TRUE
    /\ idx = 0
    /\ hist = <<>>
    /\ command = <<>>
    /\ ret = "none"

LoadIdle ==
    /\ files = <<>>
    /\ inputFile = 0
    /\ toml_dict = <<>>
    /\ opened = <<>>

AllIdle ==
    /\ todo = <<>>
    /\ commands = <<>>
    /\ printed = <<>>

ResIdle ==
    /\ element = <<>>
    /\ arg = <<>>

GenStart(chain, flash, option) ==
    /\ pc = "check"
    /\ err = "none"
    /\ lst_toml_files = chain
    /\ cmd = tbl_t
    /\ source = src_dir
    /\ run_flash = flash
    /\ override = Override(option)
    /\ GenIdle
    /\ LoadIdle
    /\ AllIdle
    /\ ResIdle

\* the chains of at most MaxChain drawn layers
LayerChains(toks) ==
    UNION {{[i \in 1..n |-> Layer(i, cs[i], toks)] :
              cs \in {c \in [1..n -> LayerChoices] :
                        \A i \in 1..n : ~c[i].table =>
                           (~c[i].status /\ ~c[i].exe /\ ~c[i].flash /\ c[i].keys = {})}} :
           n \in 1..MaxChain}

Init ==
    \/ \E toks \in TokenSeqs, option \in Options :
          \E chain \in {<<DocFull(toks)>>, ChainLayered(toks)} :
             GenStart(chain, FALSE, option)
    \/ \E toks \in LayerSeqs, flash \in BOOLEAN :
          \E chain \in LayerChains(toks) :
             GenStart(chain, flash, <<>>)

\* lines 165-167
GenCheck ==
    /\ pc = "check"
    /\ LET r == checkCommand(cmd, lst_toml_files)
       IN  /\ pc' = IF r.tag = "ok" THEN "returned"
                    ELSE IF r.tag = "clear" THEN "select" ELSE "raised"
           /\ err' = IF r.tag \in {"ok", "clear"} THEN "none" ELSE r.tag
           /\ command' = IF r.tag = "ok" THEN r.val ELSE command
           /\ ret' = IF r.tag = "ok" THEN "status" ELSE ret
    /\ UNCHANGED <<lst_toml_files, cmd, source, run_flash, override, run, exe_command,
                   commands_to_run, next_no_space, first_cmd, idx, hist>>
    /\ UNCHANGED <<loadVars, allVars, resVars>>

\* lines 169-182
GenSelect ==
    /\ pc = "select"
    /\ run' = RunKey(run_flash)
    /\ LET e == find_run(run', cmd, lst_toml_files)
       IN  /\ pc' = IF e.tag = "ok" THEN "loop"
                    ELSE IF e.tag = "unset" THEN "returned" ELSE "raised"
           /\ err' = IF e.tag \in {"ok", "unset"} THEN "none" ELSE e.tag
           /\ exe_command' = IF e.tag = "ok" THEN e.val ELSE exe_command
           /\ idx' = IF e.tag = "ok" THEN 1 ELSE idx
           /\ command' = IF e.tag = "unset" THEN RunNotFound(run') ELSE command
           /\ ret' = IF e.tag = "unset" THEN "norun" ELSE ret
           /\ commands_to_run' = IF e.tag = "ok" THEN Acc0.commands_to_run
                                  ELSE commands_to_run
           /\ next_no_space' = IF e.tag = "ok" THEN Acc0.next_no_space ELSE next_no_space
           /\ first_cmd' = IF e.tag = "ok" THEN Acc0.first_cmd ELSE first_cmd
    /\ UNCHANGED <<lst_toml_files, cmd, source, run_flash, override, hist>>
    /\ UNCHANGED <<loadVars, allVars, resVars>>

\* lines 184-218, one element
GenElement ==
    /\ pc = "loop"
    /\ idx <= Len(exe_command)
    /\ LET acc == [commands_to_run |-> commands_to_run,
                   next_no_space |-> next_no_space, first_cmd |-> first_cmd]
           r == Element(acc, exe_command[idx], cmd, lst_toml_files, source, override)
       IN  /\ pc' = IF r.tag = "ok" THEN "loop" ELSE "raised"
           /\ err' = IF r.tag = "ok" THEN "none" ELSE r.tag
           /\ commands_to_run' = r.val.commands_to_run
           /\ next_no_space' = r.val.next_no_space
           /\ first_cmd' = r.val.first_cmd
           /\ idx' = IF r.tag = "ok" THEN idx + 1 ELSE idx
           /\ hist' = IF r.tag = "ok"
                      THEN Append(hist, [branch |-> Branch(exe_command[idx], override),
                                         from |-> Len(commands_to_run),
                                         to |-> Len(r.val.commands_to_run),
                                         flag |-> next_no_space,
                                         first |-> first_cmd])
                      ELSE hist
    /\ UNCHANGED <<lst_toml_files, cmd, source, run_flash, override, run, exe_command,
                   command, ret>>
    /\ UNCHANGED <<loadVars, allVars, resVars>>

\* lines 220-223
GenReturn ==
    /\ pc = "loop"
    /\ idx > Len(exe_command)
    /\ commands_to_run' = commands_to_run \o <<" ">>
    /\ command' = commands_to_run'
    /\ ret' = "ok"
    /\ pc' = "returned"
    /\ UNCHANGED <<err, lst_toml_files, cmd, source, run_flash, override, run, exe_command,
                   next_no_space, first_cmd, idx, hist>>
    /\ UNCHANGED <<loadVars, allVars, resVars>>

\* main, lines 429-436: the returned string is an error (exit(-1)) or is
\* handed on to exec
Consume ==
    /\ pc = "returned"
    /\ pc' = IF IsError(command) THEN "exit" ELSE "exec"
    /\ err' = IF IsError(command) THEN "exit" ELSE "none"
    /\ UNCHANGED <<lst_toml_files, cmd, source, run_flash, override>>
    /\ UNCHANGED <<genVars, loadVars, allVars, resVars>>

Next ==
    \/ GenCheck
    \/ GenSelect
    \/ GenElement
    \/ GenReturn
    \/ Consume

Spec ==
    Init /\ [][Next]_vars

(***************************************************************************)
(* Vocabulary of the properties.                                           *)
(***************************************************************************)
Keys ==
    {k_foo, k_bar, k_baz}

\* the least element of a non-empty set of indices
Lowest(S) ==
    CHOOSE k \in S : \A j \in S : k <= j

\* the layers whose table cmd defines `key`
Definers(key) ==
    {k \in 1..Len(lst_toml_files) :
        cmd \in DOMAIN lst_toml_files[k] /\ key \in DOMAIN lst_toml_files[k][cmd]}

\* every layer before layer k has a table cmd
TablesBefore(k) ==
    \A j \in 1..(k - 1) : cmd \in DOMAIN lst_toml_files[j]

\* the text the i-th consumed element appended to commands_to_run
Piece(i) ==
    SubSeq(commands_to_run, hist[i].from + 1, hist[i].to)

\* next_no_space and first_cmd after the i-th consumed element
FlagAfter(i) ==
    IF i < Len(hist) THEN hist[i + 1].flag ELSE next_no_space

FirstAfter(i) ==
    IF i < Len(hist) THEN hist[i + 1].first ELSE first_cmd

\* the key an element names: the inner name of _key_, else the element
KeyOf(e) ==
    IF Len(e) >= 2 /\ e[1] = "_" /\ e[Len(e)] = "_"
    THEN SubSeq(e, 2, Len(e) - 1)
    ELSE e

\* the value the chain gives the key of the i-th element: that of the
\* lowest layer defining it
ValueAt(i) ==
    LET key == KeyOf(exe_command[i])
    IN  lst_toml_files[Lowest(Definers(key))][cmd][key]

IsKeyBranch(b) ==
    b \in {"adjacent", "plain"}

IsMarkerBranch(b) ==
    b \in {"make", "cmake"}

\* the layers whose table cmd holds 'status'
StatusHolders ==
    {k \in 1..Len(lst_toml_files) :
        cmd \in DOMAIN lst_toml_files[k] /\ s_status \in DOMAIN lst_toml_files[k][cmd]}

Blocked(k) ==
    /\ pc \in {"check", "returned", "exit"}
    /\ run = <<>>
    /\ idx = 0
    /\ hist = <<>>
    /\ commands_to_run = <<>>
    /\ pc # "check" =>
          /\ ret = "status"
          /\ command = s_err_status \o lst_toml_files[k][cmd][s_status]
                         \o s_err_from \o lst_toml_files[k][s_header][s_name]

\* C2: when some layer holds 'status' in the table cmd and every layer
\* before the lowest such layer has a table cmd, generateCommand returns
\* the error text with that layer's status and header name, and it never
\* selects the run key nor consumes an element.
C2_StatusFirst ==
    (StatusHolders # {} /\ TablesBefore(Lowest(StatusHolders))) =>
       Blocked(Lowest(StatusHolders))

\* C2 as claimed: for every chain with a status anywhere
C2_StatusFirstAnyChain ==
    StatusHolders # {} => Blocked(Lowest(StatusHolders))

\* the status sits in the second layer only, no layer holds the run key,
\* and generateCommand has returned
C2_Witness ==
    /\ StatusHolders = {2}
    /\ find_run(RunKey(run_flash), cmd, lst_toml_files).tag = "unset"
    /\ pc = "returned"
    /\ ret = "status"

\* the consumed elements whose literal is the override's non-empty target
\* and which are not caught by the three marker tests before it
Matching ==
    {i \in 1..Len(hist) :
        /\ exe_command[i] = override.element
        /\ exe_command[i] # <<>>
        /\ ~Contains(Slice(exe_command[i], 0, 5), s_make)
        /\ ~Contains(Slice(exe_command[i], 0, 6), s_cmake)
        /\ ~Contains(Slice(exe_command[i], 0, 5), s_src)}

Substituted ==
    {i \in 1..Len(hist) : hist[i].branch = "override"}

\* commands_to_run after the i-th element, had no override been given and
\* the locals before it been the same
WithoutOverride(i) ==
    Element([commands_to_run |-> SubSeq(commands_to_run, 1, hist[i].from),
             next_no_space |-> hist[i].flag, first_cmd |-> hist[i].first],
            exe_command[i], cmd, lst_toml_files, source, Override(<<>>))

OthersUntouched ==
    \A i \in (1..Len(hist)) \ Matching :
       /\ hist[i].branch = Branch(exe_command[i], Override(<<>>))
       /\ WithoutOverride(i).tag = "ok"
       /\ WithoutOverride(i).val.commands_to_run = SubSeq(commands_to_run, 1, hist[i].to)
       /\ WithoutOverride(i).val.next_no_space = FlagAfter(i)

\* C5: one call substitutes the override's text for every consumed element
\* whose literal is the override's non-empty target (and that is no build,
\* configure or source marker); every other element is consumed as if no
\* override had been given.
C5_EveryOccurrence ==
    /\ Substituted = Matching
    /\ \A i \in Matching : Piece(i) = override.arg
    /\ OthersUntouched

\* C5 as claimed: exactly one occurrence is substituted
C5_ExactlyOne ==
    /\ Matching # {} => Cardinality(Substituted) = 1
    /\ Matching = {} => Substituted = {}
    /\ OthersUntouched

\* the override's target occurs twice, both occurrences are consumed, and a
\* third element was resolved through the chain
C5_Witness ==
    /\ ret = "ok"
    /\ Cardinality(Matching) = 2
    /\ \E i \in 1..Len(hist) : IsKeyBranch(hist[i].branch)

\* C6 as claimed: main takes the returned string for an error exactly when
\* generateCommand left by one of its two error returns.
C6_ErrorIffFailed ==
    pc \in {"exit", "exec"} => ((pc = "exit") <=> (ret \in {"status", "norun"}))

\* C8: an adjacent-key element followed by a plain element puts the two
\* resolved values side by side and leaves next_no_space false; two plain
\* elements in a row, next_no_space being false before the first, put a
\* space before each value.
C8_Adjacency ==
    \A i \in 1..(Len(hist) - 1) :
       /\ (hist[i].branch = "adjacent" /\ hist[i + 1].branch = "plain") =>
             /\ SubSeq(commands_to_run, hist[i].from + 1, hist[i + 1].to)
                   = ValueAt(i) \o ValueAt(i + 1)
             /\ FlagAfter(i + 1) = FALSE
       /\ (hist[i].branch = "plain" /\ hist[i + 1].branch = "plain" /\ ~hist[i].flag) =>
             /\ SubSeq(commands_to_run, hist[i].from + 1, hist[i + 1].to)
                   = <<" ">> \o ValueAt(i) \o <<" ">> \o ValueAt(i + 1)
             /\ FlagAfter(i + 1) = FALSE

\* _foo_ then bar have been consumed, both with a non-empty value
C8_Witness ==
    \E i \in 1..(Len(hist) - 1) :
       /\ hist[i].branch = "adjacent"
       /\ hist[i + 1].branch = "plain"
       /\ ValueAt(i) # <<>>
       /\ ValueAt(i + 1) # <<>>
       /\ ret = "ok"

\* the value a key element stands for: the override's text without the
\* space Override put before it, or the value the chain resolves
ValueText(i) ==
    IF hist[i].branch = "override" THEN Tail(override.arg) ELSE ValueAt(i)

\* C9 as claimed: after an assignment element the text of the next key
\* element, resolved or overridden, follows the `=` with no space.
C9_AssignAttached ==
    \A i \in 1..(Len(hist) - 1) :
       (hist[i].branch = "assign"
          /\ hist[i + 1].branch \in {"override", "adjacent", "plain"}) =>
          SubSeq(commands_to_run, hist[i].from + 1, hist[i + 1].to)
             = <<" ">> \o exe_command[i] \o ValueText(i + 1)

Invocation(b) ==
    IF b = "make" THEN s_make_cmd \o source ELSE s_cmake_cmd \o source

Separators(s) ==
    Cardinality({j \in 1..Len(s) : s[j] = ";"})

\* C10: the first make or cmake marker appends its invocation alone, every
\* later marker of either kind appends ";" and its invocation; no other
\* element changes first_cmd or appends a ";"; a returned command with k
\* markers holds max(0, k-1) separators.  (No value, literal or source
\* path of the inputs holds a ";", so every ";" of the text is a separator.)
C10_Separators ==
    /\ \A i \in 1..Len(hist) :
          IF IsMarkerBranch(hist[i].branch)
          THEN /\ Piece(i) = (IF \E j \in 1..(i - 1) : IsMarkerBranch(hist[j].branch)
                              THEN <<";">> ELSE <<>>) \o Invocation(hist[i].branch)
               /\ FirstAfter(i) = FALSE
          ELSE /\ Separators(Piece(i)) = 0
               /\ FirstAfter(i) = hist[i].first
    /\ ret = "ok" =>
          LET k == Cardinality({i \in 1..Len(hist) : IsMarkerBranch(hist[i].branch)})
          IN  Separators(command) = IF k = 0 THEN 0 ELSE k - 1

\* a make marker, another element, then a cmake marker have been consumed
C10_Witness ==
    /\ ret = "ok"
    /\ Len(hist) = 3
    /\ hist[1].branch = "make"
    /\ ~IsMarkerBranch(hist[2].branch)
    /\ hist[3].branch = "cmake"

(***************************************************************************)
(* SpecResolve: lf_args called on its own, on every key and chain of the   *)
(* bounds.                                                                 *)
(***************************************************************************)
k_qux == <<"q", "u", "x">>

InitResolve ==
    \E chain \in LayerChains(<<k_bar>>), key \in Keys \cup {k_qux} :
       /\ pc = "lf_args"
       /\ err = "none"
       /\ lst_toml_files = chain
       /\ cmd = tbl_t
       /\ source = src_dir
       /\ run_flash = FALSE
       /\ override = Override(<<>>)
       /\ GenIdle
       /\ LoadIdle
       /\ AllIdle
       /\ element = key
       /\ arg = <<>>

\* lines 149-154
LfArgs ==
    /\ pc = "lf_args"
    /\ LET r == lf_args(element, cmd, lst_toml_files)
       IN  /\ pc' = IF r.tag = "ok" THEN "resolved" ELSE "raised"
           /\ err' = IF r.tag = "ok" THEN "none" ELSE r.tag
           /\ arg' = r.val
    /\ UNCHANGED <<lst_toml_files, cmd, source, run_flash, override, element>>
    /\ UNCHANGED <<genVars, loadVars, allVars>>

NextResolve ==
    LfArgs

SpecResolve ==
    InitResolve /\ [][NextResolve]_vars

\* C1: when some layer of the chain defines the key under the table cmd and
\* every layer before the lowest such layer has a table cmd, lf_args
\* returns the value the lowest such layer holds.
C1_FirstMatch ==
    (pc # "lf_args" /\ Definers(element) # {} /\ TablesBefore(Lowest(Definers(element)))) =>
       /\ pc = "resolved"
       /\ arg = lst_toml_files[Lowest(Definers(element))][cmd][element]

\* C1 as claimed: whether or not the layers before it have a table cmd
C1_FirstMatchAnyChain ==
    (pc # "lf_args" /\ Definers(element) # {}) =>
       /\ pc = "resolved"
       /\ arg = lst_toml_files[Lowest(Definers(element))][cmd][element]

\* the first two layers both define the key, with different values, and
\* lf_args has returned the first layer's
C1_Witness ==
    /\ pc = "resolved"
    /\ {1, 2} \subseteq Definers(element)
    /\ lst_toml_files[1][cmd][element] # lst_toml_files[2][cmd][element]
    /\ arg = lst_toml_files[1][cmd][element]

(***************************************************************************)
(* SpecLoad: main, lines 288-314, over every file system of the bounds.    *)
(* files maps a path to what open() and tomli.load() give: parses is       *)
(* FALSE for a file tomli rejects, and a path outside DOMAIN files cannot  *)
(* be opened.  opened is a history variable: the paths loaded so far.      *)
(***************************************************************************)
Path(i) ==
    <<"f", Digit(i)>>

Paths ==
    {Path(i) : i \in 1..NumFiles}

p_missing == <<"n", "o", "n", "e">>

\* what a file may hold: no header, or a header with or without name and
\* include, and with or without a table named all
FileChoices ==
    [parses : BOOLEAN, header : BOOLEAN, name : BOOLEAN,
     include : {<<>>} \cup {<<q>> : q \in Paths \cup {p_missing}}, all : BOOLEAN]

FileDict(i, c) ==
    LET hdr == (IF c.name THEN s_name :> <<"d", Digit(i)>> ELSE <<>>)
               @@ (IF c.include # <<>> THEN s_include :> c.include[1] ELSE <<>>)
    IN  (IF c.header THEN s_header :> hdr ELSE <<>>)
        @@ (IF c.all THEN s_all :> <<>> ELSE <<>>)
        @@ (tbl_t :> <<>>)

\* the guard that keeps the chain finite in the model
MaxLoad ==
    NumFiles + 1

CanOpen(path) ==
    path \in DOMAIN files /\ files[path].parses

InitLoad ==
    \E cs \in [1..NumFiles -> FileChoices], root \in Paths \cup {p_missing} :
       /\ \A i \in 1..NumFiles :
             /\ ~cs[i].parses =>
                   (~cs[i].header /\ ~cs[i].name /\ cs[i].include = <<>> /\ ~cs[i].all)
             /\ ~cs[i].header => (~cs[i].name /\ cs[i].include = <<>>)
       /\ files = [q \in Paths |->
                     LET i == CHOOSE j \in 1..NumFiles : Path(j) = q
                     IN  [parses |-> cs[i].parses, dict |-> FileDict(i, cs[i])]]
       /\ inputFile = root
       /\ toml_dict = <<>>
       /\ opened = <<>>
       /\ pc = "open"
       /\ err = "none"
       /\ lst_toml_files = <<>>
       /\ cmd = tbl_t
       /\ source = src_dir
       /\ run_flash = FALSE
       /\ override = Override(<<>>)
       /\ GenIdle
       /\ AllIdle
       /\ ResIdle

\* lines 288-291: an open or parse failure of the input file is not caught
LoadRoot ==
    /\ pc = "open"
    /\ IF CanOpen(inputFile)
       THEN /\ toml_dict' = files[inputFile].dict
            /\ lst_toml_files' = <<files[inputFile].dict>>
            /\ opened' = <<inputFile>>
            /\ pc' = "header"
            /\ err' = "none"
       ELSE /\ pc' = "raised"
            /\ err' = "OSError"
            /\ UNCHANGED <<toml_dict, lst_toml_files, opened>>
    /\ UNCHANGED <<files, inputFile, cmd, source, run_flash, override>>
    /\ UNCHANGED <<genVars, allVars, resVars>>

\* lines 295-305: the checks made of the input file's dict
CheckHeader ==
    /\ pc = "header"
    /\ LET bad == \/ s_header \notin DOMAIN toml_dict
                  \/ s_name \notin DOMAIN toml_dict[s_header]
                  \/ s_all \in DOMAIN toml_dict
       IN  /\ pc' = IF bad THEN "exit" ELSE "include"
           /\ err' = IF bad THEN "exit" ELSE "none"
    /\ UNCHANGED <<lst_toml_files, cmd, source, run_flash, override>>
    /\ UNCHANGED <<genVars, loadVars, allVars, resVars>>

\* lines 307-314, one pass of the while loop with 'include' in the header:
\* the included file is appended, or the exception is caught and exit(-1)
LoadInclude ==
    /\ pc = "include"
    /\ Len(lst_toml_files) < MaxLoad
    /\ (s_header \in DOMAIN toml_dict => s_include \in DOMAIN toml_dict[s_header])
    /\ IF s_header \in DOMAIN toml_dict /\ CanOpen(toml_dict[s_header][s_include])
       THEN /\ toml_dict' = files[toml_dict[s_header][s_include]].dict
            /\ lst_toml_files' = Append(lst_toml_files, toml_dict')
            /\ opened' = Append(opened, toml_dict[s_header][s_include])
            /\ UNCHANGED <<pc, err>>
       ELSE /\ pc' = "exit"
            /\ err' = "exit"
            /\ UNCHANGED <<toml_dict, lst_toml_files, opened>>
    /\ UNCHANGED <<files, inputFile, cmd, source, run_flash, override>>
    /\ UNCHANGED <<genVars, allVars, resVars>>

\* line 308: the header of the last loaded dict has no 'include'
LoadDone ==
    /\ pc = "include"
    /\ s_header \in DOMAIN toml_dict
    /\ s_include \notin DOMAIN toml_dict[s_header]
    /\ pc' = "loaded"
    /\ UNCHANGED <<err, lst_toml_files, cmd, source, run_flash, override>>
    /\ UNCHANGED <<genVars, loadVars, allVars, resVars>>

NextLoad ==
    \/ LoadRoot
    \/ CheckHeader
    \/ LoadInclude
    \/ LoadDone

SpecLoad ==
    InitLoad /\ [][NextLoad]_vars

\* C3 as claimed: an include cycle is rejected instead of followed, so the
\* loading stops: no file is loaded into the chain twice.
C3_NoFileTwice ==
    \A i, j \in 1..Len(opened) : i # j => opened[i] # opened[j]

\* C7 as claimed: no chain the loader returns holds a dict with a table
\* named all.
C7_NoAllInChain ==
    pc = "loaded" =>
       \A i \in 1..Len(lst_toml_files) : s_all \notin DOMAIN lst_toml_files[i]

(***************************************************************************)
(* SpecAll: main, lines 438-463, the command "all".  todo is what is left  *)
(* of list(lst_toml_files[0]), in the order of the file; commands is the   *)
(* list of that name and printed what the loop has printed.  getSource     *)
(* prompts the user: the answer is an input of the step, a directory of    *)
(* ../cmd, an interrupt or a text int() rejects.                           *)
(***************************************************************************)
\* what a layer may hold for one command table: nothing, a status, a run
\* key with or without the key it names, or the key alone
TableKinds ==
    {"absent", "status", "complete", "nokey", "norun"}

AllTable(kind, i) ==
    CASE kind = "status" -> (s_status :> <<"o", "f", "f", Digit(i)>>)
      [] kind = "complete" -> (s_exeCommand :> <<k_bar>>) @@ (k_bar :> <<"Y", Digit(i)>>)
      [] kind = "nokey" -> (s_exeCommand :> <<k_bar>>)
      [] OTHER -> (k_bar :> <<"Y", Digit(i)>>)

AllLayer(i, kt, ku) ==
    Doc(<<"d", Digit(i)>>,
        (IF kt # "absent" THEN tbl_t :> AllTable(kt, i) ELSE <<>>)
        @@ (IF ku # "absent" THEN tbl_u :> AllTable(ku, i) ELSE <<>>))

AllChains ==
    UNION {{[i \in 1..n |-> AllLayer(i, ks[i][1], ks[i][2])] :
              ks \in {k \in [1..n -> TableKinds \X TableKinds] :
                        k[1][1] # "absent" /\ k[1][2] # "absent"}} :
           n \in 1..MaxChain}

Orders ==
    {<<s_header, tbl_t, tbl_u>>, <<tbl_u, s_header, tbl_t>>}

Answers ==
    {"v1", "^C", "x"}

\* getSource, line 248, for the directory the user chose
SourceOf(c, dir) ==
    <<".", ".", "/">> \o c \o <<"/">> \o dir \o <<"/">>

InitAll ==
    \E chain \in AllChains, order \in Orders, flash \in BOOLEAN :
       /\ pc = "all"
       /\ err = "none"
       /\ lst_toml_files = chain
       /\ cmd = <<>>
       /\ source = <<>>
       /\ run_flash = flash
       /\ override = Override(<<>>)
       /\ GenIdle
       /\ LoadIdle
       /\ todo = order
       /\ commands = <<>>
       /\ printed = <<>>
       /\ ResIdle

\* lines 443-454, one pass of the for loop
AllStep ==
    /\ pc = "all"
    /\ todo # <<>>
    /\ cmd' = Head(todo)
    /\ todo' = Tail(todo)
    /\ \E answer \in Answers :
          LET r == checkCommand(cmd', lst_toml_files)
              src == SourceOf(cmd', <<"v", "1">>)
              g == generateCommand(cmd', lst_toml_files, src, run_flash, Override(<<>>))
          IN  IF r.tag = "KeyError"
              THEN /\ pc' = "raised"
                   /\ err' = "KeyError"
                   /\ UNCHANGED <<source, command, commands, printed>>
              ELSE IF cmd' # s_header /\ r.tag = "clear"
              THEN IF answer # "v1"
                   THEN /\ pc' = "exit"
                        /\ err' = "input"
                        /\ UNCHANGED <<source, command, commands, printed>>
                   ELSE /\ source' = src
                        /\ pc' = IF g.tag = "ok" THEN "all"
                                 ELSE IF g.tag = "exit" THEN "exit" ELSE "raised"
                        /\ err' = IF g.tag = "ok" THEN "none" ELSE g.tag
                        /\ command' = IF g.tag = "ok" THEN g.val ELSE command
                        /\ commands' = IF g.tag = "ok" /\ ~IsError(g.val)
                                       THEN Append(commands, g.val) ELSE commands
                        /\ printed' = IF g.tag = "ok" /\ IsError(g.val)
                                      THEN Append(printed, g.val) ELSE printed
              ELSE IF r.tag = "ok"
              THEN /\ printed' = Append(printed, cmd' \o <<":", " ">> \o r.val)
                   /\ UNCHANGED <<pc, err, source, command, commands>>
              ELSE UNCHANGED <<pc, err, source, command, commands, printed>>
    /\ UNCHANGED <<lst_toml_files, run_flash, override>>
    /\ UNCHANGED <<run, exe_command, commands_to_run, next_no_space, first_cmd,
                   idx, hist, ret>>
    /\ UNCHANGED <<loadVars, resVars>>

\* lines 457-463: the collected commands are run or printed, exit(0)
AllExec ==
    /\ pc = "all"
    /\ todo = <<>>
    /\ pc' = "done"
    /\ UNCHANGED <<err, lst_toml_files, cmd, source, run_flash, override>>
    /\ UNCHANGED <<genVars, loadVars, allVars, resVars>>

NextAll ==
    \/ AllStep
    \/ AllExec

SpecAll ==
    InitAll /\ [][NextAll]_vars

\* the command tables of the first layer that the loop has not reached
Remaining ==
    {todo[i] : i \in 1..Len(todo)} \ {s_header}

\* C4 as claimed: a table whose assembly fails (status, no run key, or a
\* key no layer defines) does not end the run while command tables of the
\* first layer remain to be assembled.
C4_BestEffort ==
    (pc = "exit" /\ err = "exit") => Remaining = {}

=============================================================================
